---- MODULE Spec2Model ----
(***************************************************************************)
(* Model of src/race.py: RaceSimulator.run (one stochastic race, lap by    *)
(* lap) and MonteCarloRace.run (n_iter races folded into win / podium /    *)
(* DNF / finish-time accumulators and a summary table).                    *)
(*                                                                         *)
(* Numbers.  The program computes in floats; the model computes in         *)
(* integers.  Speeds are whole speed units, the clamp 1e-3 is one unit     *)
(* (SpeedFloor), probabilities are counted in thirds (crash_prob = 3 is    *)
(* 1.0) and a float division is an integer division.                       *)
(*                                                                         *)
(* Random draws.  np.random is one global stream that every draw advances. *)
(* A raw stream element is a value of Raw; rand() reads it as the uniform  *)
(* level raw/3, normal(loc, scale) reads it as loc + scale * (raw - 1).    *)
(* A line-up with rec = TRUE records the stream on `tape` and is run a     *)
(* second time over the same tape (np.random.seed before each run).        *)
(***************************************************************************)
EXTENDS Integers, Sequences, FiniteSets, TLC

\* ------------------------------------------------------------------ bounds
\* Largest trial count n_iter passed to MonteCarloRace.run.
MaxIter == 2
\* Longest recorded draw stream of a recorded (rec) line-up.
MaxTape == 8

\* ------------------------------------------------------------ program data
Raw == 0 .. 2

NaN == -1

SpeedFloor == 1

PodiumSize == 3

Car(name, base_speed, speed_std, crash_prob, pit_mean, pit_std, pit_laps, tyre_decay, boost_laps, boost_speed, boost_crash) ==
  [name |-> name, base_speed |-> base_speed, speed_std |-> speed_std,
   crash_prob |-> crash_prob, pit_mean |-> pit_mean, pit_std |-> pit_std,
   pit_laps |-> pit_laps, tyre_decay |-> tyre_decay,
   boost_laps |-> boost_laps, boost_speed |-> boost_speed,
   boost_crash |-> boost_crash]

Track(lap_length, n_laps, weather_variance) ==
  [lap_length |-> lap_length, n_laps |-> n_laps,
   weather_variance |-> weather_variance]

\* The line-ups MonteCarloRace is constructed with (cars, track), and whether
\* the draw stream of the run is recorded and replayed.
LineUps ==
  { [cars |-> << >>, track |-> Track(60, 1, 0), rec |-> FALSE],
    \* pit stop and boost on lap 2, heavy tyre decay, noisy pit stop
    [cars |-> << Car("Rocket", 3, 0, 1, 0, 1, {2}, 2, {2}, 1, 1) >>,
     track |-> Track(60, 3, 0), rec |-> FALSE],
    \* noisy pace and weather
    [cars |-> << Car("Risky", 2, 1, 1, 0, 0, {}, 0, {1}, 1, 1) >>,
     track |-> Track(60, 1, 1), rec |-> FALSE],
    \* four entrants: two fast ones of the same pace, two slow ones of the same
    [cars |-> << Car("Eco", 3, 0, 1, 0, 0, {}, 0, {}, 0, 0),
                 Car("Sprinter", 4, 0, 1, 0, 0, {}, 0, {}, 0, 0),
                 Car("Steady", 4, 0, 1, 0, 0, {}, 0, {}, 0, 0),
                 Car("Balanced", 3, 0, 1, 0, 0, {}, 0, {}, 0, 0) >>,
     track |-> Track(60, 1, 0), rec |-> FALSE],
    \* a certain crash next to a certain finish
    [cars |-> << Car("Wreck", 4, 0, 3, 0, 0, {}, 0, {1}, 0, 0),
                 Car("Conserve", 2, 0, 0, 0, 0, {}, 0, {}, 0, 0) >>,
     track |-> Track(60, 2, 0), rec |-> FALSE],
    \* invalid configurations
    [cars |-> << Car("Conserve", 2, 0, 0, 0, 0, {}, 0, {}, 0, 0),
                 Car("NegStd", 3, -1, 1, 0, 0, {}, 0, {}, 0, 0) >>,
     track |-> Track(60, 1, 0), rec |-> FALSE],
    [cars |-> << Car("NegPit", 3, 0, 1, 1, -1, {2}, 0, {}, 0, 0) >>,
     track |-> Track(60, 2, 0), rec |-> FALSE],
    [cars |-> << Car("NegCrash", 3, 0, -1, 0, 0, {}, 0, {}, 0, 0) >>,
     track |-> Track(60, 1, 0), rec |-> FALSE],
    \* recorded and replayed
    [cars |-> << Car("Duo", 2, 1, 1, 1, 1, {1}, 0, {}, 0, 0),
                 Car("Trio", 3, 0, 1, 0, 0, {}, 0, {}, 0, 0) >>,
     track |-> Track(60, 1, 1), rec |-> TRUE],
    [cars |-> << Car("Solo", 3, 0, 1, 0, 0, {}, 0, {}, 0, 0) >>,
     track |-> Track(60, 2, 0), rec |-> TRUE] }

Names(cs) == { cs[k].name : k \in 1 .. Len(cs) }

Max(a, b) == IF a >= b THEN a ELSE b

Min(a, b) == IF a <= b THEN a ELSE b

RECURSIVE SumSeq(_)
SumSeq(s) == IF s = << >> THEN 0 ELSE Head(s) + SumSeq(Tail(s))

\* ------------------------------------------------------------ random draws
\* np.random.rand(): the uniform level of a raw stream element, in thirds.
Rand(raw) == raw

\* np.random.normal(loc, scale): loc plus a deviation of -1, 0 or +1 scale.
Normal(loc, scale, raw) == loc + scale * (raw - 1)

\* np.random.normal raises ValueError for a negative scale.
ScaleRejected(scale) == scale < 0

\* ------------------------------------------------- RaceSimulator: one lap
\* LapCrashProb as it would be if a boost lap assigned boost_crash (= for +=).
LapCrashProbBoostOnly(car, lap) ==
  IF lap \in car.boost_laps THEN car.boost_crash ELSE car.crash_prob

LapCrashProb(car, lap) ==
  car.crash_prob + (IF lap \in car.boost_laps THEN car.boost_crash ELSE 0)

Crashes(car, lap, raw) == Rand(raw) < LapCrashProb(car, lap)

\* LapsSincePit as it would be without the - 1.
LapsSincePitOffByOne(lap, last_pit_lap) == lap - last_pit_lap

LapsSincePit(lap, last_pit_lap) == lap - last_pit_lap - 1

TyrePenalty(car, lap, last_pit_lap) ==
  car.base_speed * car.tyre_decay * LapsSincePit(lap, last_pit_lap)

RawSpeed(car, trk, lap, last_pit_lap, s, w) ==
  Normal(car.base_speed, car.speed_std, s)
    - TyrePenalty(car, lap, last_pit_lap)
    + (IF lap \in car.boost_laps THEN car.boost_speed ELSE 0)
    + Normal(0, trk.weather_variance, w)

\* ClampSpeed as it would be without the safety clamp.
ClampSpeedUnclamped(speed) == speed

ClampSpeed(speed) == Max(speed, SpeedFloor)

LapTime(trk, speed) == trk.lap_length \div speed

PitStopTime(car, raw) == Max(Normal(car.pit_mean, car.pit_std, raw), 0)

Finished == [text |-> "Finished", lap |-> 0]

DNF(lap) == [text |-> "DNF on lap", lap |-> lap]

\* One iteration of the lap loop with the draws d = <<crash, speed, weather,
\* pit>>: what it leaves behind and how many draws it took from the stream.
LapStep(car, trk, lap, total_time, last_pit_lap, d) ==
  LET base == [error |-> "none", status |-> Finished, total_time |-> total_time,
               last_pit_lap |-> last_pit_lap, used |-> 1]
      speed == ClampSpeed(RawSpeed(car, trk, lap, last_pit_lap, d[2], d[3]))
      run_time == total_time + LapTime(trk, speed)
  IN  IF Crashes(car, lap, d[1])
        THEN [base EXCEPT !.status = DNF(lap)]
      ELSE IF ScaleRejected(car.speed_std)
        THEN [base EXCEPT !.error = "ValueError"]
      ELSE IF ScaleRejected(trk.weather_variance)
        THEN [base EXCEPT !.error = "ValueError", !.used = 2]
      ELSE IF lap \notin car.pit_laps
        THEN [base EXCEPT !.total_time = run_time, !.used = 3]
      ELSE IF ScaleRejected(car.pit_std)
        THEN [base EXCEPT !.error = "ValueError", !.total_time = run_time,
                          !.used = 3]
      ELSE [base EXCEPT !.total_time = run_time + PitStopTime(car, d[4]),
                        !.last_pit_lap = lap, !.used = 4]

\* ResultEntry as it would be if a crash kept the time accumulated so far.
ResultEntryPartialTime(status, total_time, lap, trk) ==
  [time |-> total_time,
   status |-> status,
   laps |-> IF status # Finished THEN lap ELSE trk.n_laps]

\* ResultEntry as it would be if a crash reported the laps before the crash lap.
ResultEntryLapsBefore(status, total_time, lap, trk) ==
  [time |-> IF status # Finished THEN NaN ELSE total_time,
   status |-> status,
   laps |-> IF status # Finished THEN lap - 1 ELSE trk.n_laps]

\* results[car.name] = {"time", "status", "laps"}
ResultEntry(status, total_time, lap, trk) ==
  [time |-> IF status # Finished THEN NaN ELSE total_time,
   status |-> status,
   laps |-> IF status # Finished THEN lap ELSE trk.n_laps]

\* A dict keeps its keys in insertion order; assigning to a key that is
\* present replaces its value in place.
DictSet(d, key, value) ==
  IF \E k \in 1 .. Len(d) : d[k].key = key
    THEN [k \in 1 .. Len(d) |->
            IF d[k].key = key THEN [key |-> key, value |-> value] ELSE d[k]]
    ELSE Append(d, [key |-> key, value |-> value])

\* ---------------------------------------------- MonteCarloRace: one trial
\* finished = {n: d for n, d in res.items() if d["status"] == "Finished"}
FinishedOf(r) == SelectSeq(r, LAMBDA e : e.value.status = Finished)

\* InsertByTime as it would be if an item went ahead of the items of equal key.
InsertByTimeAheadOfEqual(sorted, e) ==
  LET before == SelectSeq(sorted, LAMBDA x : x.value.time < e.value.time)
      after == SelectSeq(sorted, LAMBDA x : x.value.time >= e.value.time)
  IN  before \o << e >> \o after

\* sorted() is stable: an item goes behind every item whose key is not larger.
InsertByTime(sorted, e) ==
  LET before == SelectSeq(sorted, LAMBDA x : x.value.time <= e.value.time)
      after == SelectSeq(sorted, LAMBDA x : x.value.time > e.value.time)
  IN  before \o << e >> \o after

RECURSIVE SortedByTime(_)
SortedByTime(items) ==
  IF items = << >> THEN << >>
  ELSE InsertByTime(SortedByTime(SubSeq(items, 1, Len(items) - 1)),
                    items[Len(items)])

\* PodiumOf as it would be if the slice were order[:2].
PodiumOfTopTwo(order) == SubSeq(order, 1, Min(2, Len(order)))

\* PodiumOf as it would be if every finisher were put on the podium.
PodiumOfEveryFinisher(order) == order

\* PodiumOf as it would be if the slice were order[1:3].
PodiumOfRunnersUp(order) == SubSeq(order, 2, Min(PodiumSize, Len(order)))

\* order[:3]
PodiumOf(order) == SubSeq(order, 1, Min(PodiumSize, Len(order)))

\* counts[n] += 1 for each item of a list, in turn
RECURSIVE Increment(_, _)
Increment(counts, items) ==
  IF items = << >> THEN counts
  ELSE Increment([counts EXCEPT ![Head(items).key] = @ + 1], Tail(items))

\* WinnersAfter as it would be if a race nobody finished went to the first car.
WinnersAfterFirstCar(counts, r) ==
  LET order == SortedByTime(r)
  IN  IF order = << >> THEN counts ELSE Increment(counts, << order[1] >>)

\* WinnersAfter as it would be if every finisher with the best time won.
WinnersAfterAllTied(counts, r) ==
  LET order == SortedByTime(FinishedOf(r))
  IN  IF order = << >> THEN counts
      ELSE Increment(counts, SelectSeq(order, LAMBDA e :
                                         e.value.time = order[1].value.time))

WinnersAfter(counts, r) ==
  LET order == SortedByTime(FinishedOf(r))
  IN  IF order = << >> THEN counts ELSE Increment(counts, << order[1] >>)

PodiumsAfter(counts, r) ==
  LET order == SortedByTime(FinishedOf(r))
  IN  IF order = << >> THEN counts ELSE Increment(counts, PodiumOf(order))

\* DnfsAfter as it would be if the DNF count were bumped outside the else.
DnfsAfterEveryCar(counts, r) == Increment(counts, r)

\* the else branch of the time & DNF loop
DnfsAfter(counts, r) ==
  Increment(counts, SelectSeq(r, LAMBDA e : e.value.status # Finished))

\* the if branch of the time & DNF loop
RECURSIVE TimesAfter(_, _)
TimesAfter(times, r) ==
  IF r = << >> THEN times
  ELSE TimesAfter(
         IF Head(r).value.status = Finished
           THEN [times EXCEPT ![Head(r).key] = Append(@, Head(r).value.time)]
           ELSE times,
         Tail(r))

\* --------------------------------------------- MonteCarloRace: the summary
\* 100 * count / n_iter
Pct(count, n) == (100 * count) \div n

\* AvgTime as it would be if no finish gave an average of 0.
AvgTimeZeroWhenEmpty(times) ==
  IF Len(times) # 0 THEN SumSeq(times) \div Len(times) ELSE 0

\* np.mean(finish_times[name]) if finishes else np.nan
AvgTime(times) == IF Len(times) # 0 THEN SumSeq(times) \div Len(times) ELSE NaN

SummaryRow(name, wins, podiums, crashes, times, n) ==
  [car |-> name, win_pct |-> Pct(wins[name], n),
   podium_pct |-> Pct(podiums[name], n), dnf_pct |-> Pct(crashes[name], n),
   avg_time |-> AvgTime(times[name])]

Perms(n) ==
  { p \in [1 .. n -> 1 .. n] : \A a, b \in 1 .. n : p[a] = p[b] => a = b }

\* DataFrame.sort_values("Win %", ascending=False) with the default
\* kind="quicksort": descending, and the order of equal keys is whatever the
\* numpy build's quicksort leaves.
SortValuesDesc(rows) ==
  { [k \in 1 .. Len(rows) |-> rows[p[k]]] :
      p \in { q \in Perms(Len(rows)) :
                \A k \in 1 .. Len(rows) - 1 :
                  rows[q[k]].win_pct >= rows[q[k + 1]].win_pct } }

\* ------------------------------------------------------------------- state
VARIABLES
  cars, track, n_iter,      \* MonteCarloRace(cars, track).run(n_iter)
  pc, outcome,              \* where the call is; how it ended
  i,                        \* the trial loop's i
  ci, lap, total_time, last_pit_lap, results,   \* RaceSimulator.run
  res,                      \* the race the trial loop last received
  winner_counts, podium_counts, finish_times, dnfs,
  table,                    \* the returned DataFrame
  rec, tape, pos,           \* the recorded draw stream and the place in it
  run, first, races         \* which run over the tape; what the first gave

vars ==
  << cars, track, n_iter, pc, outcome, i, ci, lap, total_time, last_pit_lap,
     results, res, winner_counts, podium_counts, finish_times, dnfs, table,
     rec, tape, pos, run, first, races >>

config == << cars, track, n_iter, rec >>

race_locals == << ci, lap, total_time, last_pit_lap, results >>

counters == << winner_counts, podium_counts, finish_times, dnfs >>

NoFirst == [done |-> FALSE]

\* NewCounts as it would be if the tracking dicts were kept from call to call.
StaleCounts(cs) ==
  IF run = 1 THEN [n \in Names(cs) |-> 0] ELSE winner_counts

\* {c.name: 0 for c in self.cars}
NewCounts(cs) == [n \in Names(cs) |-> 0]

\* {c.name: [] for c in self.cars}
NewTimes(cs) == [n \in Names(cs) |-> << >>]

Init ==
  /\ \E g \in LineUps : cars = g.cars /\ track = g.track /\ rec = g.rec
  /\ n_iter \in 0 .. MaxIter
  /\ pc = "call" /\ outcome = "none"
  /\ i = 0
  /\ ci = 0 /\ lap = 0 /\ total_time = 0 /\ last_pit_lap = 0
  /\ results = << >> /\ res = << >>
  /\ winner_counts = << >> /\ podium_counts = << >>
  /\ finish_times = << >> /\ dnfs = << >>
  /\ table = << >>
  /\ tape = << >> /\ pos = 0
  /\ run = 1 /\ first = NoFirst /\ races = << >>

\* RaceSimulator(self.cars, self.track).run() is entered for trial k: with
\* no cars it returns {} at once, otherwise the first car starts lap 1.
EnterRace(k) ==
  /\ i' = k
  /\ IF cars = << >>
       THEN /\ pc' = "fold"
            /\ res' = << >>
            /\ races' = IF rec THEN Append(races, << >>) ELSE races
            /\ ci' = 0 /\ lap' = 0
       ELSE /\ pc' = "race"
            /\ UNCHANGED << res, races >>
            /\ ci' = 1 /\ lap' = 1
  /\ total_time' = 0 /\ last_pit_lap' = 0 /\ results' = << >>

\* for i in range(1, n_iter + 1) has no (further) trial: on to the summary.
LeaveLoop ==
  /\ pc' = "summary"
  /\ UNCHANGED << i, race_locals, res, races >>

\* MonteCarloRace.run is called: the tracking dicts, then the loop header.
Call ==
  /\ pc = "call" /\ outcome = "none"
  /\ winner_counts' = NewCounts(cars)
  /\ podium_counts' = NewCounts(cars)
  /\ finish_times' = NewTimes(cars)
  /\ dnfs' = NewCounts(cars)
  /\ IF n_iter >= 1 THEN EnterRace(1) ELSE LeaveLoop
  /\ UNCHANGED << config, outcome, table, tape, pos, run, first >>

\* The draws ds are the next elements of the stream.
TakeDraws(ds) ==
  IF rec
    THEN /\ pos + Len(ds) <= MaxTape
         /\ \A k \in 1 .. Len(ds) : pos + k <= Len(tape) => tape[pos + k] = ds[k]
         /\ tape' = IF pos + Len(ds) > Len(tape)
                      THEN SubSeq(tape, 1, pos) \o ds ELSE tape
         /\ pos' = pos + Len(ds)
    ELSE UNCHANGED << tape, pos >>

\* One iteration of the lap loop of the current car; a crash or the last lap
\* stores the car's result and moves to the next car, or returns the race.
Lap ==
  /\ pc = "race" /\ outcome = "none"
  /\ \E u \in Raw :
     \E t \in [2 .. LapStep(cars[ci], track, lap, total_time, last_pit_lap,
                            << u, 0, 0, 0 >>).used -> Raw] :
       LET car == cars[ci]
           d == [k \in 1 .. 4 |->
                   IF k = 1 THEN u ELSE IF k \in DOMAIN t THEN t[k] ELSE 0]
           r == LapStep(car, track, lap, total_time, last_pit_lap, d)
           over == r.status # Finished \/ lap = track.n_laps
           stored == DictSet(results, car.name,
                             ResultEntry(r.status, r.total_time, lap, track))
       IN  /\ TakeDraws(SubSeq(d, 1, r.used))
           /\ IF r.error # "none"
                THEN /\ outcome' = r.error
                     /\ UNCHANGED << pc, race_locals, res, races >>
              ELSE IF ~over
                THEN /\ lap' = lap + 1
                     /\ total_time' = r.total_time
                     /\ last_pit_lap' = r.last_pit_lap
                     /\ UNCHANGED << pc, outcome, ci, results, res, races >>
              ELSE IF ci < Len(cars)
                THEN /\ ci' = ci + 1 /\ lap' = 1
                     /\ total_time' = 0 /\ last_pit_lap' = 0
                     /\ results' = stored
                     /\ UNCHANGED << pc, outcome, res, races >>
              ELSE /\ pc' = "fold"
                   /\ res' = stored
                   /\ races' = IF rec THEN Append(races, stored) ELSE races
                   /\ ci' = 0 /\ lap' = 0
                   /\ total_time' = 0 /\ last_pit_lap' = 0 /\ results' = << >>
                   /\ UNCHANGED outcome
  /\ UNCHANGED << config, i, counters, table, run, first >>

\* The rest of the trial loop's body for the race just received, then the
\* loop header.
Fold ==
  /\ pc = "fold" /\ outcome = "none"
  /\ winner_counts' = WinnersAfter(winner_counts, res)
  /\ podium_counts' = PodiumsAfter(podium_counts, res)
  /\ finish_times' = TimesAfter(finish_times, res)
  /\ dnfs' = DnfsAfter(dnfs, res)
  /\ IF i < n_iter
       THEN /\ i' = i + 1
            /\ IF cars = << >>
                 THEN UNCHANGED << pc, res, ci, lap >>
                 ELSE /\ pc' = "race" /\ ci' = 1 /\ lap' = 1
                      /\ UNCHANGED res
            /\ races' = IF rec /\ cars = << >> THEN Append(races, << >>) ELSE races
            /\ UNCHANGED << total_time, last_pit_lap, results >>
       ELSE LeaveLoop
  /\ UNCHANGED << config, outcome, table, tape, pos, run, first >>

\* Build summary table: the rows in input order, the DataFrame, the sort.
BuildSummary ==
  /\ pc = "summary" /\ outcome = "none"
  /\ IF n_iter = 0 /\ cars # << >>
       THEN \* 100 * 0 / 0 in the first row
            /\ outcome' = "ZeroDivisionError"
            /\ UNCHANGED << pc, table >>
     ELSE IF cars = << >>
       THEN \* a DataFrame of no rows has no column "Win %"
            /\ outcome' = "KeyError"
            /\ UNCHANGED << pc, table >>
     ELSE LET summary == [k \in 1 .. Len(cars) |->
                            SummaryRow(cars[k].name, winner_counts,
                                       podium_counts, dnfs, finish_times,
                                       n_iter)]
          IN  /\ IF first.done /\ first.summary = summary
                   THEN table' = first.table
                   ELSE table' \in SortValuesDesc(summary)
              /\ outcome' = "returned"
              /\ pc' = "done"
  /\ UNCHANGED << config, i, race_locals, res, counters, tape, pos, run,
                  first, races >>

Summary ==
  [k \in 1 .. Len(cars) |->
     SummaryRow(cars[k].name, winner_counts, podium_counts, dnfs,
                finish_times, n_iter)]

Reverse(s) == [k \in 1 .. Len(s) |-> s[Len(s) + 1 - k]]

\* The recorded run has returned: the stream is rewound (np.random.seed) and
\* MonteCarloRace.run is called again with the same n_iter, on the same cars,
\* with one car's crash_prob raised by one third, or with the list of cars
\* in reverse order.
SecondRun ==
  /\ rec /\ run = 1 /\ outcome = "returned"
  /\ \E raised \in 0 .. Len(cars), reversed \in BOOLEAN :
       /\ reversed => raised = 0 /\ Len(cars) >= 2
       /\ first' = [done |-> TRUE, cars |-> cars, summary |-> Summary,
                    table |-> table, races |-> races, wins |-> winner_counts,
                    podiums |-> podium_counts, dnfs |-> dnfs,
                    times |-> finish_times, raised |-> raised,
                    reversed |-> reversed]
       /\ cars' = IF reversed THEN Reverse(cars)
                  ELSE IF raised = 0 THEN cars
                  ELSE [cars EXCEPT ![raised].crash_prob = @ + 1]
  /\ run' = 2 /\ pos' = 0 /\ pc' = "call" /\ outcome' = "none"
  /\ i' = 0 /\ res' = << >> /\ races' = << >> /\ table' = << >>
  /\ UNCHANGED << track, n_iter, rec, race_locals, counters, tape >>

Next == Call \/ Lap \/ Fold \/ BuildSummary \/ SecondRun

Spec == Init /\ [][Next]_vars

\* ------------------------------------------------------------------ claims
EntryOf(d, name) == (CHOOSE k \in 1 .. Len(d) : d[k].key = name)

IsDNF(e) == e.value.status.text = "DNF on lap"

Folded == IF pc \in {"race", "fold"} THEN i - 1 ELSE i

\* C1: a Lap step that ends a car's race stores an outcome whose laps are
\* n_laps when the status is Finished, and otherwise the lap k of the step,
\* the k of the DNF status, with 1 <= k <= n_laps.
C1_LapsCompleted ==
  [][(pc = "race" /\ outcome' = "none" /\ (results' # results \/ pc' = "fold"))
       => LET e == (IF pc' = "fold" THEN res' ELSE results')[ci]
          IN  /\ e.key = cars[ci].name
              /\ e.value.status = Finished
                   => e.value.laps = track.n_laps /\ lap = track.n_laps
              /\ e.value.status # Finished
                   => /\ IsDNF(e)
                      /\ e.value.laps = lap /\ e.value.status.lap = lap
                      /\ 1 <= lap /\ lap <= track.n_laps]_vars

\* C1 witness: a race of three laps returned a crash on lap 2.
C1_Witness ==
  /\ track.n_laps = 3 /\ pc = "fold"
  /\ \E k \in 1 .. Len(res) : res[k].value.status = DNF(2) /\ res[k].value.laps = 2

\* C2: a Fold step gives a win to one finisher with the smallest total time
\* and to nobody else, a podium to exactly min(3, finishers) finishers none
\* of which is slower than a finisher left out, and nothing to a DNF.
C2_RankedFinishers ==
  [][pc = "fold"
       => LET fin == { k \in 1 .. Len(res) : res[k].value.status = Finished }
              won(k) == winner_counts'[res[k].key] - winner_counts[res[k].key]
              pod(k) == podium_counts'[res[k].key] - podium_counts[res[k].key]
              time(k) == res[k].value.time
          IN  /\ \A k \in 1 .. Len(res) :
                   /\ won(k) \in {0, 1} /\ pod(k) \in {0, 1}
                   /\ k \notin fin => won(k) = 0 /\ pod(k) = 0
              /\ Cardinality({ k \in fin : won(k) = 1 })
                   = (IF fin = {} THEN 0 ELSE 1)
              /\ \A a, b \in fin : won(a) = 1 => time(a) <= time(b)
              /\ Cardinality({ k \in fin : pod(k) = 1 })
                   = (IF Cardinality(fin) < 3 THEN Cardinality(fin) ELSE 3)
              /\ \A a, b \in fin :
                   pod(a) = 1 /\ pod(b) = 0 => time(a) <= time(b)]_vars

\* C2 witness: the first trial had four finishers; a fastest one has the win
\* and a slowest one is off the podium.
C2_Witness ==
  /\ Len(res) = 4 /\ Len(FinishedOf(res)) = 4 /\ i = 1 /\ pc # "fold"
  /\ winner_counts["Sprinter"] = 1 /\ podium_counts["Sprinter"] = 1
  /\ podium_counts["Eco"] = 1 /\ podium_counts["Balanced"] = 0

\* C3: once the tracking dicts exist, every competitor's podium count is at
\* least its win count, and so is its Podium % against its Win % in the table.
C3_PodiumAtLeastWins ==
  /\ pc # "call"
       => \A n \in Names(cars) : podium_counts[n] >= winner_counts[n]
  /\ \A k \in 1 .. Len(table) : table[k].podium_pct >= table[k].win_pct

\* C3 witness: after two trials a competitor has two wins and two podiums.
C3_Witness ==
  /\ pc = "done" /\ n_iter >= 2
  /\ \E n \in Names(cars) : winner_counts[n] = 2 /\ podium_counts[n] = 2

\* C4: a Fold step adds each competitor to exactly one of DNF count and
\* finish times (DNF count when not Finished, its total time when Finished),
\* and after i folded trials DNF count plus number of finish times is i.
C4_OneAccumulator ==
  /\ [](pc # "call"
          => \A n \in Names(cars) : dnfs[n] + Len(finish_times[n]) = Folded)
  /\ [][pc = "fold"
          => \A k \in 1 .. Len(res) :
               LET n == res[k].key
               IN  IF res[k].value.status = Finished
                     THEN /\ dnfs'[n] = dnfs[n]
                          /\ finish_times'[n]
                               = Append(finish_times[n], res[k].value.time)
                     ELSE /\ dnfs'[n] = dnfs[n] + 1
                          /\ finish_times'[n] = finish_times[n]]_vars

\* C4 witness: two trials folded, one competitor with one DNF and one time
\* next to one with two DNFs.
C4_Witness ==
  /\ pc = "summary" /\ i = 2
  /\ \E n \in Names(cars) : dnfs[n] = 1 /\ Len(finish_times[n]) = 1
  /\ \E n \in Names(cars) : dnfs[n] = 2 /\ finish_times[n] = << >>

EntryOfRow(t, name) == CHOOSE k \in 1 .. Len(t) : t[k].car = name

CarIndex(name) == CHOOSE k \in 1 .. Len(cars) : cars[k].name = name

\* C5: the returned table is in descending Win % order and rows of equal
\* Win % are in the order of the input competitor list.
C5_StableDescending ==
  outcome = "returned"
    => \A a, b \in 1 .. Len(table) :
         a < b => /\ table[a].win_pct >= table[b].win_pct
                  /\ table[a].win_pct = table[b].win_pct
                       => CarIndex(table[a].car) < CarIndex(table[b].car)

\* C6: a call with n_iter = 0 ends in an error raised at the call boundary,
\* before the summary is being built, and returns no table.
C6_ZeroTrialsRejectedAtCall ==
  (n_iter = 0 /\ outcome # "none")
    => outcome # "returned" /\ pc = "call" /\ table = << >>

\* C7: a call with no competitors and n_iter >= 1 returns a table of no rows.
C7_EmptyLineUpReturns ==
  (cars = << >> /\ n_iter >= 1 /\ outcome # "none")
    => outcome = "returned" /\ table = << >>

InvalidCar(c) == c.speed_std < 0 \/ c.pit_std < 0 \/ c.crash_prob < 0

\* C8: with a competitor of negative speed_std, pit_std or crash_prob (and
\* n_iter >= 1) the call is never accepted, and its error is raised at the
\* call boundary, before any lap is evaluated.
C8_InvalidRejectedAtCall ==
  ((\E k \in 1 .. Len(cars) : InvalidCar(cars[k])) /\ n_iter >= 1
     /\ outcome # "none")
    => outcome # "returned" /\ pc = "call"

\* C9: a second run over the same draw stream with the same competitors in
\* the same order, the same track and n_iter returns the same races, the same
\* win, podium and DNF counts, the same finish times and the same table.
C9_SameStreamSameResult ==
  (run = 2 /\ first.raised = 0 /\ ~first.reversed /\ outcome # "none")
    => /\ outcome = "returned"
       /\ races = first.races
       /\ winner_counts = first.wins /\ podium_counts = first.podiums
       /\ dnfs = first.dnfs /\ finish_times = first.times
       /\ table = first.table

\* C9 witness: both runs returned after two trials with a finish and a crash
\* among them.
C9_Witness ==
  /\ run = 2 /\ first.raised = 0 /\ ~first.reversed
  /\ outcome = "returned" /\ n_iter = 2
  /\ \E n \in Names(cars) : dnfs[n] >= 1 /\ Len(finish_times[n]) >= 1

\* C10: a second run over the same draw stream in which one competitor's
\* crash_prob is larger gives that competitor no fewer DNFs and no more wins.
C10_CrashRiskMonotone ==
  (run = 2 /\ first.raised # 0 /\ outcome = "returned")
    => LET n == cars[first.raised].name
       IN  /\ dnfs[n] >= first.dnfs[n]
           /\ winner_counts[n] <= first.wins[n]
           /\ table[EntryOfRow(table, n)].dnf_pct
                >= first.table[EntryOfRow(first.table, n)].dnf_pct
           /\ table[EntryOfRow(table, n)].win_pct
                <= first.table[EntryOfRow(first.table, n)].win_pct

\* The largest pit lap of a car strictly below lap l, 0 if there is none.
LastPitBefore(car, l) ==
  LET below == { q \in car.pit_laps : 1 <= q /\ q < l }
  IN  IF below = {} THEN 0
      ELSE CHOOSE q \in below : \A o \in below : o <= q

\* C11: on every lap about to be evaluated, laps_since_pit is lap - p - 1 for
\* the largest pit lap p below the lap (0 if none); it is never negative and
\* it is 0 on the lap after a pit lap.
C11_TyreReset ==
  pc = "race"
    => LET car == cars[ci]
           since == LapsSincePit(lap, last_pit_lap)
       IN  /\ since = lap - LastPitBefore(car, lap) - 1
           /\ since >= 0
           /\ (lap - 1) \in car.pit_laps => since = 0

\* C11 witness: lap 3 is about to be evaluated after a pit stop on lap 2
\* that followed a lap on worn tyres.
C11_Witness ==
  /\ pc = "race" /\ lap = 3 /\ 2 \in cars[ci].pit_laps /\ last_pit_lap = 2
  /\ LapsSincePit(2, 0) = 1 /\ LapsSincePit(lap, last_pit_lap) = 0

\* C12: a competitor with crash_prob = 1.0 is a DNF on lap 1 with laps = 1
\* and no time in every race; its DNF count is the number of folded trials,
\* its win and podium counts are 0, and its row shows DNF % = 100, Win % =
\* Podium % = 0 and no average time.
C12_CertainCrash ==
  \A k \in 1 .. Len(cars) :
    cars[k].crash_prob >= Cardinality(Raw)
      => LET n == cars[k].name
         IN  /\ \A d \in {results, res} : \A e \in 1 .. Len(d) :
                  d[e].key = n
                    => /\ d[e].value.status = DNF(1)
                       /\ d[e].value.laps = 1
                       /\ d[e].value.time = NaN
             /\ pc # "call"
                  => /\ dnfs[n] = Folded
                     /\ winner_counts[n] = 0 /\ podium_counts[n] = 0
                     /\ finish_times[n] = << >>
             /\ \A r \in 1 .. Len(table) :
                  table[r].car = n
                    => /\ table[r].dnf_pct = 100
                       /\ table[r].win_pct = 0 /\ table[r].podium_pct = 0
                       /\ table[r].avg_time = NaN

\* C12 witness: the table of two trials with a competitor of crash_prob 1.0.
C12_Witness ==
  /\ outcome = "returned" /\ n_iter = 2
  /\ \E k \in 1 .. Len(cars) :
       /\ cars[k].crash_prob = Cardinality(Raw)
       /\ dnfs[cars[k].name] = 2
       /\ \E r \in 1 .. Len(table) :
            table[r].car = cars[k].name /\ table[r].dnf_pct = 100

\* C13: the table of a single trial shows only percentages of 0 or 100, and
\* at most one row has Win % = 100.
C13_SingleTrialTable ==
  (n_iter = 1 /\ outcome = "returned")
    => /\ \A r \in 1 .. Len(table) :
            /\ table[r].win_pct \in {0, 100}
            /\ table[r].podium_pct \in {0, 100}
            /\ table[r].dnf_pct \in {0, 100}
       /\ Cardinality({ r \in 1 .. Len(table) : table[r].win_pct = 100 }) <= 1

\* C13 witness: the table of a single trial in which two finishers had the
\* same, best, total time.
C13_Witness ==
  /\ n_iter = 1 /\ outcome = "returned"
  /\ \E a, b \in 1 .. Len(res) :
       /\ a < b
       /\ res[a].value.status = Finished /\ res[b].value.status = Finished
       /\ res[a].value.time = res[b].value.time
       /\ winner_counts[res[a].key] = 1
       /\ \E r \in 1 .. Len(table) :
            table[r].car = res[b].key /\ table[r].win_pct = 0
                                      /\ table[r].podium_pct = 100

ValidLineUp ==
  /\ cars # << >>
  /\ \A k \in 1 .. Len(cars) : ~InvalidCar(cars[k])

\* C14: in the returned table a competitor without a finish time has no
\* average (and its percentages are numbers), a competitor with finish times
\* has their arithmetic mean; a valid line-up with n_iter >= 1 never ends in
\* an error, whoever failed to finish.
C14_AverageOrAbsent ==
  /\ outcome = "returned"
       => \A r \in 1 .. Len(table) :
            LET times == finish_times[table[r].car]
                row == table[r]
            IN  /\ times = << >>
                     => /\ row.avg_time = NaN
                        /\ row.dnf_pct = 100
                        /\ row.win_pct = 0 /\ row.podium_pct = 0
                /\ times # << >>
                     => /\ row.avg_time # NaN
                        /\ row.avg_time * Len(times) <= SumSeq(times)
                        /\ SumSeq(times) < (row.avg_time + 1) * Len(times)
  /\ (ValidLineUp /\ n_iter >= 1) => outcome \in {"none", "returned"}

\* C14 witness: a returned table with a row without an average next to a row
\* whose average is over two different finish times.
C14_Witness ==
  /\ outcome = "returned"
  /\ \E r \in 1 .. Len(table) : table[r].avg_time = NaN
  /\ \E n \in Names(cars) :
       Len(finish_times[n]) = 2 /\ finish_times[n][1] # finish_times[n][2]

\* C15: a second run over the same draw stream with the list of competitors
\* in reverse order gives every competitor, in every race, the outcome
\* (status, laps, time) it had in the first run.
C15_OrderIndependent ==
  (run = 2 /\ first.reversed)
    => \A t \in 1 .. Len(races) :
         \A a \in 1 .. Len(races[t]), b \in 1 .. Len(first.races[t]) :
           races[t][a].key = first.races[t][b].key
             => races[t][a].value = first.races[t][b].value

\* C16: a lap whose crash draw is below crash_prob (plus boost_crash on a
\* boost lap) takes no further draw, adds no lap time and no pit-stop time and
\* records no pit stop; the step stores a DNF on that lap without a time and
\* goes on to the next competitor or returns the race.
C16_CrashEndsRace ==
  /\ [](pc = "race"
          => \A d \in [1 .. 4 -> Raw] :
               LET car == cars[ci]
                   r == LapStep(car, track, lap, total_time, last_pit_lap, d)
               IN  Rand(d[1]) < car.crash_prob
                                  + (IF lap \in car.boost_laps
                                       THEN car.boost_crash ELSE 0)
                     => /\ r.error = "none" /\ r.status = DNF(lap)
                        /\ r.total_time = total_time
                        /\ r.last_pit_lap = last_pit_lap
                        /\ r.used = 1)
  /\ [][(pc = "race" /\ outcome' = "none" /\ (results' # results \/ pc' = "fold"))
          => LET e == (IF pc' = "fold" THEN res' ELSE results')[ci]
             IN  e.value.status # Finished
                   => /\ e.value.status = DNF(lap)
                      /\ e.value.time = NaN
                      /\ rec => pos' = pos + 1
                      /\ \/ pc' = "fold"
                         \/ pc' = "race" /\ ci' = ci + 1 /\ lap' = 1
                                         /\ total_time' = 0]_vars

\* C16 witness: a race returned a crash on lap 2, a pit lap and boost lap,
\* after a completed lap 1; the outcome has no time.
C16_Witness ==
  /\ pc = "fold"
  /\ \E k \in 1 .. Len(res) :
       /\ res[k].value.status = DNF(2) /\ res[k].value.time = NaN
       /\ 2 \in cars[k].pit_laps /\ 2 \in cars[k].boost_laps

\* C17: a Fold step for a race nobody finished leaves every win count, podium
\* count and finish-time list as it was, adds one to every competitor's DNF
\* count, raises no error and goes on to the next trial (or to the summary
\* after the last).
C17_NoFinisherTrial ==
  [][(pc = "fold" /\ \A k \in 1 .. Len(res) : res[k].value.status # Finished)
       => /\ winner_counts' = winner_counts
          /\ podium_counts' = podium_counts
          /\ finish_times' = finish_times
          /\ \A k \in 1 .. Len(res) : dnfs'[res[k].key] = dnfs[res[k].key] + 1
          /\ outcome' = "none"
          /\ IF i < n_iter
               THEN i' = i + 1 /\ pc' = (IF cars = << >> THEN "fold" ELSE "race")
               ELSE i' = i /\ pc' = "summary"]_vars

\* C17 witness: trial 2 is running after a trial that every one of several
\* competitors ended as a DNF; nobody has a win or a podium.
C17_Witness ==
  /\ pc = "race" /\ i = 2 /\ Len(res) >= 2
  /\ \A k \in 1 .. Len(res) : res[k].value.status # Finished
  /\ \A n \in Names(cars) :
       winner_counts[n] = 0 /\ podium_counts[n] = 0 /\ dnfs[n] = 1

\* C18: on every lap the clamped speed is at least the floor for every speed
\* and weather draw, so the lap time is positive, and a pit-stop time is never
\* negative; a completed lap makes the total time strictly larger; and a
\* ValueError comes only from an invalid line-up, never from a speed.
C18_PositiveLapTimes ==
  /\ [](pc = "race"
          => \A s, w, q \in Raw :
               LET car == cars[ci]
                   speed == ClampSpeed(RawSpeed(car, track, lap, last_pit_lap,
                                                s, w))
               IN  /\ speed >= SpeedFloor /\ speed > 0
                   /\ LapTime(track, speed) > 0
                   /\ PitStopTime(car, q) >= 0)
  /\ [](outcome = "ValueError" => ~ValidLineUp)
  /\ [][(pc = "race" /\ outcome' = "none")
          => /\ (pc' = "race" /\ ci' = ci) => total_time' > total_time
             /\ (results' # results \/ pc' = "fold")
                  => LET e == (IF pc' = "fold" THEN res' ELSE results')[ci]
                     IN  e.value.status = Finished
                           => e.value.time > total_time]_vars

\* C18 witness: lap 3 is about to be evaluated after a lap 2 whose raw speed
\* was negative (lap time = lap_length / floor) and whose pit stop took 0.
C18_Witness ==
  /\ pc = "race" /\ lap = 3 /\ last_pit_lap = 2
  /\ \A s, w \in Raw : RawSpeed(cars[ci], track, 2, 0, s, w) < 0
  /\ Normal(cars[ci].pit_mean, cars[ci].pit_std, 0) < 0
  /\ total_time = LapTime(track, ClampSpeed(RawSpeed(cars[ci], track, 1, 0, 1, 1)))
                    + track.lap_length \div SpeedFloor

TotalOf(cs, counts) == SumSeq([k \in 1 .. Len(cs) |-> counts[cs[k].name]])

FinishersOf(r) ==
  Cardinality({ k \in 1 .. Len(r) : r[k].value.status = Finished })

\* C19: the win counts and the podium counts add up to 0 when the call has
\* set them up; a Fold step adds 1 to the sum of win counts when the race had
\* a finisher and 0 otherwise, and min(3, finishers) to the sum of podium
\* counts; no other step changes them.  So the sum of win counts is the
\* number of folded trials with a finisher, at most the folded trials.
C19_WinAndPodiumTotals ==
  /\ [](pc # "call"
          => /\ TotalOf(cars, winner_counts) <= Folded
             /\ TotalOf(cars, podium_counts) <= 3 * Folded)
  /\ [][/\ pc = "call"
             => /\ TotalOf(cars, winner_counts') = 0
                /\ TotalOf(cars, podium_counts') = 0
        /\ pc = "fold"
             => /\ TotalOf(cars, winner_counts')
                     = TotalOf(cars, winner_counts)
                         + (IF FinishersOf(res) > 0 THEN 1 ELSE 0)
                /\ TotalOf(cars, podium_counts')
                     = TotalOf(cars, podium_counts)
                         + (IF FinishersOf(res) < 3 THEN FinishersOf(res) ELSE 3)
        /\ pc \in {"race", "summary"}
             => winner_counts' = winner_counts /\ podium_counts' = podium_counts
       ]_vars

\* C19 witness: two trials of four competitors folded, one without a finisher
\* and one with at least three: one win and three podiums in all.
C19_Witness ==
  /\ pc = "summary" /\ i = 2 /\ Len(cars) = 4
  /\ TotalOf(cars, winner_counts) = 1 /\ TotalOf(cars, podium_counts) = 3
  /\ \E n \in Names(cars) : dnfs[n] = 2

\* C20: in a Fold step a finisher gets the win exactly when no finisher has a
\* smaller total time and no finisher of the same total time is earlier in
\* the input list, and a podium exactly when fewer than three finishers are
\* ahead of it in that order.
C20_TieBreakByInputOrder ==
  [][pc = "fold"
       => LET fin == { k \in 1 .. Len(res) : res[k].value.status = Finished }
              won(k) == winner_counts'[res[k].key] - winner_counts[res[k].key]
              pod(k) == podium_counts'[res[k].key] - podium_counts[res[k].key]
              time(k) == res[k].value.time
              ahead(k) ==
                { j \in fin :
                    \/ time(j) < time(k)
                    \/ /\ time(j) = time(k)
                       /\ CarIndex(res[j].key) < CarIndex(res[k].key) }
          IN  \A k \in fin :
                /\ won(k) = 1 <=> ahead(k) = {}
                /\ pod(k) = 1 <=> Cardinality(ahead(k)) < 3]_vars

\* C20 witness: the first trial had four finishers, the earlier of the two
\* fastest (same time) has the win and the earlier of the two slowest (same
\* time) the last podium place.
C20_Witness ==
  /\ Len(res) = 4 /\ FinishersOf(res) = 4 /\ i = 1 /\ pc # "fold"
  /\ res[2].value.time = res[3].value.time
  /\ res[1].value.time = res[4].value.time
  /\ res[2].value.time < res[1].value.time
  /\ winner_counts[res[2].key] = 1 /\ winner_counts[res[3].key] = 0
  /\ podium_counts[res[1].key] = 1 /\ podium_counts[res[4].key] = 0

====
